---- MODULE Spec2Model ----
(***************************************************************************)
(* dev-cache: the language-aware, depth-bounded directory scanner          *)
(* (scanDirectory, detectLanguage, matchPattern of dev-cache/main.go) and  *)
(* the program around it (main, displayDetailed, human).                   *)
(*                                                                         *)
(* A path is the sequence of directory names below the scan root; the scan *)
(* root is the empty sequence.  Names are strings.  depth(p) = Len(p) - 1, *)
(* so the immediate children of the root are at depth 0, as in the code.   *)
(***************************************************************************)
EXTENDS Integers, Sequences, FiniteSets, TLC

VARIABLES
    cfg,                \* cfg.Languages after yaml load: sequence of Language
    tree,               \* the directories below the scan root (set of paths)
    files,              \* files[p]: names of the regular files in directory p
    unreadable,         \* directories os.ReadDir fails on
    unstatable,         \* <<directory, file name>>: files d.Info() fails on
    matchArgs,          \* <<name, pattern>>: the arguments of a matchPattern call
    maxDepth,           \* scanDirectory parameter
    detectLang,         \* scanDirectory parameter (cfg.Options.DetectLanguage)
    pc,                 \* position in scanDirectory / detectLanguage driver
    todo,               \* WalkDir: directories still to be handed to the callback
    findings,           \* var findings []Finding
    langCache,          \* langCache map[string]string
    depth0NoLang,       \* depth0NoLang map[string]bool (key set)
    depth0Scanned,      \* depth0Scanned map[string]bool (key set)
    findingsByPath,     \* findingsByPath map[string]bool (key set)
    excludedDirs,       \* excludedDirs map[string]bool (key set)
    depth0HasFindings,  \* depth0HasFindings map[string]bool (key set)
    walked,             \* history: the directories the callback was invoked on,
                        \* each with the patterns its name was matched against
    detectLog,          \* history: the calls of detectLanguage and their results
    walkErr,            \* filepath.WalkDir of scanDirectory returns an error
    warnings,           \* the warnings scanDirectory has written (line 811)
    matchLog,           \* history: the results of the matchPattern calls
    flagClean,          \* --clean
    flagYes,            \* --yes
    flagJSON,           \* --json
    mainPc,             \* position in main: "scan", "prompt", "delete", "rescan", "exit"
    rep,                \* rep := Report{...} of main
    out,                \* the lines main has printed
    table,              \* the table displayDetailed has rendered
    cacheFindings,      \* var cacheFindings []Finding of main
    stdin,              \* history: what reader.ReadString returned
    removeLog           \* history: the calls of os.RemoveAll and whether they succeeded

vars == <<cfg, tree, files, unreadable, unstatable, matchArgs, maxDepth, detectLang,
          pc, todo, findings, langCache,
          depth0NoLang, depth0Scanned, findingsByPath, excludedDirs,
          depth0HasFindings, walked, detectLog, walkErr, warnings, matchLog,
          flagClean, flagYes, flagJSON,
          mainPc, rep, out, table, cacheFindings, stdin, removeLog>>

-----------------------------------------------------------------------------
(* Bounds of the model *)

\* directories and regular files below the scan root, taken together
MaxEntries == 4
\* maxDepth ranges over 0..MaxDepthBound
MaxDepthBound == 2

-----------------------------------------------------------------------------
(* Strings (package strings) *)

HasPrefix(s, prefix) ==
    Len(prefix) <= Len(s) /\ SubSeq(s, 1, Len(prefix)) = prefix

HasSuffix(s, suffix) ==
    Len(suffix) <= Len(s) /\ SubSeq(s, Len(s) - Len(suffix) + 1, Len(s)) = suffix

TrimPrefix(s, prefix) ==
    IF HasPrefix(s, prefix) THEN SubSeq(s, Len(prefix) + 1, Len(s)) ELSE s

TrimSuffix(s, suffix) ==
    IF HasSuffix(s, suffix) THEN SubSeq(s, 1, Len(s) - Len(suffix)) ELSE s

UpperLetters == "ABCDEFGHIJKLMNOPQRSTUVWXYZ"
LowerLetters == "abcdefghijklmnopqrstuvwxyz"

LowerChar(c) ==
    IF \E i \in 1..Len(UpperLetters) : SubSeq(UpperLetters, i, i) = c
    THEN LET i == CHOOSE j \in 1..Len(UpperLetters) : SubSeq(UpperLetters, j, j) = c
         IN  SubSeq(LowerLetters, i, i)
    ELSE c

RECURSIVE ToLower(_)
ToLower(s) ==
    IF Len(s) = 0 THEN s
    ELSE LowerChar(SubSeq(s, 1, 1)) \o ToLower(SubSeq(s, 2, Len(s)))

-----------------------------------------------------------------------------
(* matchPattern *)

\* a wildcard that wants something after the prefix
matchPatternNonEmptySuffix(name, pattern) ==
    IF name = pattern THEN TRUE
    ELSE IF HasSuffix(pattern, "*")
         THEN HasPrefix(name, TrimSuffix(pattern, "*"))
              /\ Len(name) > Len(TrimSuffix(pattern, "*"))
         ELSE FALSE

matchPattern(name, pattern) ==
    IF name = pattern THEN TRUE
    ELSE IF HasSuffix(pattern, "*")
         THEN HasPrefix(name, TrimSuffix(pattern, "*"))
         ELSE FALSE

\* index of the first pattern of the list that matches name, 0 when none does
FirstMatch(name, patterns) ==
    IF \E i \in 1..Len(patterns) : matchPattern(name, patterns[i])
    THEN CHOOSE i \in 1..Len(patterns) :
            /\ matchPattern(name, patterns[i])
            /\ \A j \in 1..(i - 1) : ~matchPattern(name, patterns[j])
    ELSE 0

-----------------------------------------------------------------------------
(* Configuration and the lookup tables main() derives from it *)

Language(name, enabled, priority, patterns, signatures) ==
    [Name |-> name, Enabled |-> enabled, Priority |-> priority,
     Patterns |-> patterns, Signatures |-> signatures]

\* the languages main() keeps: enabled ones, in configuration order
SelectedLanguages(c) == SelectSeq(c, LAMBDA l : l.Enabled)

RECURSIVE Concat(_)
Concat(ss) == IF ss = <<>> THEN <<>> ELSE Head(ss) \o Concat(Tail(ss))

LangNames(c) == { SelectedLanguages(c)[i].Name : i \in 1..Len(SelectedLanguages(c)) }

\* the last language of name n in configuration order (map assignment overwrites)
LastNamed(c, n) ==
    LET ls == SelectedLanguages(c)
        i  == CHOOSE k \in 1..Len(ls) :
                 /\ ls[k].Name = n
                 /\ \A j \in (k + 1)..Len(ls) : ls[j].Name # n
    IN  ls[i]

allPatterns(c) ==
    LET ls == SelectedLanguages(c)
    IN  Concat([i \in 1..Len(ls) |-> ls[i].Patterns])

\* every pattern attributed to the first selected language
patternToLangOfFirstLanguage(c) ==
    LET ls == SelectedLanguages(c)
        ps == UNION { { ls[i].Patterns[k] : k \in 1..Len(ls[i].Patterns) } :
                      i \in 1..Len(ls) }
    IN  [p \in ps |-> ls[1].Name]

patternToLang(c) ==
    LET ls == SelectedLanguages(c)
        ps == UNION { { ls[i].Patterns[k] : k \in 1..Len(ls[i].Patterns) } :
                      i \in 1..Len(ls) }
    IN  [p \in ps |->
            LET i == CHOOSE k \in 1..Len(ls) :
                        /\ \E m \in 1..Len(ls[k].Patterns) : ls[k].Patterns[m] = p
                        /\ \A j \in (k + 1)..Len(ls) :
                              \A m \in 1..Len(ls[j].Patterns) : ls[j].Patterns[m] # p
            IN  ls[i].Name]

langSignatures(c) ==
    LET ns == { n \in LangNames(c) :
                  \E i \in 1..Len(SelectedLanguages(c)) :
                     /\ SelectedLanguages(c)[i].Name = n
                     /\ Len(SelectedLanguages(c)[i].Signatures) > 0 }
    IN  [n \in ns |->
            LET ls == SelectedLanguages(c)
                i  == CHOOSE k \in 1..Len(ls) :
                         /\ ls[k].Name = n /\ Len(ls[k].Signatures) > 0
                         /\ \A j \in (k + 1)..Len(ls) :
                               ~(ls[j].Name = n /\ Len(ls[j].Signatures) > 0)
            IN  ls[i].Signatures]

DefaultPriority == 5

langPriorities(c) ==
    [n \in LangNames(c) |->
        IF LastNamed(c, n).Priority = 0 THEN DefaultPriority
        ELSE LastNamed(c, n).Priority]

langToPatterns(c) == [n \in LangNames(c) |-> LastNamed(c, n).Patterns]

-----------------------------------------------------------------------------
(* The file system *)

Root == <<>>

\* directory names in the order os.ReadDir returns them (sorted by filename,
\* byte-wise: '.' sorts before the letters)
NameOrder == <<".git", ".venv", "node_modules", "proj">>

DirNames == { NameOrder[i] : i \in 1..Len(NameOrder) }

\* depth counted from the grandparent: one level too few
DepthOneShort(p) == Len(p) - 2

Depth(p) == Len(p) - 1

Base(p) == p[Len(p)]

Dir(p) == SubSeq(p, 1, Len(p) - 1)

\* q is p or lies beneath p
IsUnder(q, p) == Len(p) <= Len(q) /\ SubSeq(q, 1, Len(p)) = p

\* a walk that hands every sub-directory of p to the callback twice
ChildrenListedTwice(p) ==
    LET present == SelectSeq(NameOrder, LAMBDA n : Append(p, n) \in tree)
    IN  [i \in 1..(2 * Len(present)) |-> Append(p, present[(i + 1) \div 2])]

\* the sub-directories of p, in ReadDir order
Children(p) ==
    LET present == SelectSeq(NameOrder, LAMBDA n : Append(p, n) \in tree)
    IN  [i \in 1..Len(present) |-> Append(p, present[i])]

\* os.ReadDir(p): the entries of p, or an error
ReadDir(p) ==
    [err     |-> p \in unreadable,
     entries |-> { [name |-> f, isDir |-> FALSE] : f \in files[p] } \cup
                 { [name |-> Base(q), isDir |-> TRUE] :
                   q \in { t \in tree : Len(t) = Len(p) + 1 /\ IsUnder(t, p) } }]

-----------------------------------------------------------------------------
(* detectLanguage *)

\* the element of a one-element set: { e(x) : x \in {v} } computes v once
Only(S) == CHOOSE x \in S : TRUE

\* the orders in which `for lang, signatures := range langSignatures` can
\* deliver the keys of the map (Go leaves the iteration order of a map open)
MapOrders(S) ==
    { o \in [1..Cardinality(S) -> S] : \A i, j \in 1..Cardinality(S) : i # j => o[i] # o[j] }

\* sort.Slice with the comparison turned round: highest number first
RECURSIVE SortByPriorityDescending(_)
SortByPriorityDescending(langs) ==
    IF Len(langs) <= 1 THEN langs
    ELSE LET n      == Len(langs)
             sorted == SortByPriorityDescending(SubSeq(langs, 1, n - 1))
             x      == langs[n]
             later  == { i \in 1..(n - 1) : sorted[i].priority < x.priority }
             pos    == IF later = {} THEN n
                       ELSE CHOOSE i \in later : \A j \in later : i <= j
         IN  SubSeq(sorted, 1, pos - 1) \o <<x>> \o SubSeq(sorted, pos, n - 1)

\* sort.Slice(langs, priority <) on a short slice: insertion sort, which moves
\* an element left only past strictly greater priorities
RECURSIVE SortByPriority(_)
SortByPriority(langs) ==
    IF Len(langs) <= 1 THEN langs
    ELSE LET n      == Len(langs)
             sorted == SortByPriority(SubSeq(langs, 1, n - 1))
             x      == langs[n]
             later  == { i \in 1..(n - 1) : sorted[i].priority > x.priority }
             pos    == IF later = {} THEN n
                       ELSE CHOOSE i \in later : \A j \in later : i <= j
         IN  SubSeq(sorted, 1, pos - 1) \o <<x>> \o SubSeq(sorted, pos, n - 1)

langEntries(sigs, prios, order) ==
    [i \in 1..Len(order) |->
        [name       |-> order[i],
         signatures |-> sigs[order[i]],
         priority   |-> IF order[i] \notin DOMAIN prios \/ prios[order[i]] = 0
                        THEN DefaultPriority
                        ELSE prios[order[i]]]]

\* one signature against the entries of the directory
SignatureFound(sig, entries) ==
    IF HasPrefix(sig, "*.")
    THEN \E e \in entries :
            ~e.isDir /\ HasSuffix(ToLower(e.name), ToLower(TrimPrefix(sig, "*")))
    ELSE \E e \in entries : ~e.isDir /\ e.name = sig

LangFound(l, entries) ==
    \E k \in 1..Len(l.signatures) : SignatureFound(l.signatures[k], entries)

\* detectLanguage(dirPath, langSignatures, langPriorities), with the map
\* iteration order of this call as `order`
detectLanguage(dirPath, sigs, prios, order) ==
    IF ReadDir(dirPath).err THEN ""
    ELSE Only({ LET hits == { i \in 1..Len(langs) : LangFound(langs[i], entries) }
                IN  IF hits = {} THEN ""
                    ELSE langs[CHOOSE i \in hits : \A j \in hits : i <= j].name :
                langs   \in { SortByPriority(langEntries(sigs, prios, order)) },
                entries \in { ReadDir(dirPath).entries } })

-----------------------------------------------------------------------------
(* scanDirectory: the WalkDir callback *)

excludedFromLanguageDetection == { ".git" }

NoLanguageFound == "no language found"

\* the language of a status Finding when exclusion is not looked at
getLanguageIgnoringExclusion(detectedLang, isExcluded) ==
    IF detectedLang = "" THEN "no language found"
    ELSE detectedLang

getLanguageForExclusion(detectedLang, isExcluded) ==
    IF isExcluded THEN ""
    ELSE IF detectedLang = "" THEN NoLanguageFound
    ELSE detectedLang

\* a Finding whose size fields have their zero values (ModMax, a time, is
\* left out of the model)
Finding(path, projectRoot, pattern, language) ==
    [path |-> path, projectRoot |-> projectRoot, pattern |-> pattern,
     language |-> language, sizeBytes |-> 0, items |-> 0, err |-> ""]

\* info.Size() of a regular file: here, as many bytes as its name has
FileSize(name) == Len(name)

RECURSIVE SumSizes(_)
SumSizes(names) ==
    IF names = {} THEN 0
    ELSE LET n == CHOOSE x \in names : TRUE
         IN  FileSize(n) + SumSizes(names \ {n})

\* the regular files of directory p that d.Info() succeeds on
Statable(p) == { n \in files[p] : <<p, n>> \notin unstatable }

RECURSIVE PathString(_)
PathString(p) ==
    IF p = <<>> THEN "." ELSE PathString(SubSeq(p, 1, Len(p) - 1)) \o "/" \o p[Len(p)]

\* err.Error() of the error WalkDir hands to the callback for a directory
\* that cannot be listed
ReadDirError(p) == "open " \o PathString(p) \o ": permission denied"

\* the WalkDir of inspectPath (lines 139-159) over the directories in queue:
\* a directory that cannot be listed leaves its error in f.Err if that is
\* still empty; a file that d.Info() fails on is passed over; every other
\* file is counted and its size added
RECURSIVE inspectWalk(_, _)
inspectWalk(queue, f) ==
    IF queue = <<>> THEN f
    ELSE IF ReadDir(Head(queue)).err
    THEN inspectWalk(Tail(queue),
                     [f EXCEPT !.err = IF @ = "" THEN ReadDirError(Head(queue)) ELSE @])
    ELSE inspectWalk(Children(Head(queue)) \o Tail(queue),
                     [f EXCEPT !.items     = @ + Cardinality(Statable(Head(queue))),
                               !.sizeBytes = @ + SumSizes(Statable(Head(queue)))])

\* inspectPath(root) for a directory root that os.Stat succeeds on
inspectPath(root) == inspectWalk(<<root>>, Finding(root, "", "", ""))

\* m[k] = v for a Go map held as a function
Put(m, k, v) == [x \in DOMAIN m \cup {k} |-> IF x = k THEN v ELSE m[x]]

Call(dir, lang) == [dir |-> dir, lang |-> lang]

\* a call of detectLanguage made by the callback, with the line of the call
CallAt(dir, lang, line) == [dir |-> dir, lang |-> lang, line |-> line]

Walked(path, patterns) == [path |-> path, patterns |-> patterns]

\* isCacheDirectory
isCacheDirectory(f) == f.pattern # ""

\* the Finding with the project root of the walk in both modes
CacheFindingKeepingRoot(path, projectRoot, pattern, detectedLang) ==
    [inspectPath(path) EXCEPT
        !.pattern     = pattern,
        !.language    = IF detectLang /\ detectedLang # "" THEN detectedLang
                        ELSE IF pattern \in DOMAIN patternToLang(cfg)
                             THEN patternToLang(cfg)[pattern] ELSE "",
        !.projectRoot = projectRoot]

\* the Finding of lines 756-775 for a directory matching `pattern`
CacheFinding(path, projectRoot, pattern, detectedLang) ==
    [inspectPath(path) EXCEPT
        !.pattern     = pattern,
        !.language    = IF detectLang /\ detectedLang # "" THEN detectedLang
                        ELSE IF pattern \in DOMAIN patternToLang(cfg)
                             THEN patternToLang(cfg)[pattern] ELSE "",
        !.projectRoot = IF detectLang THEN projectRoot ELSE Dir(path)]

\* the project root taken to be the parent directory at every depth
ProjectRootOfParent(path, matchesCachePattern) ==
    IF Depth(path) = 0 /\ ~matchesCachePattern THEN path
    ELSE Dir(path)

\* the project root the callback attributes directory `path` to (lines 621-640)
ProjectRootOf(path, matchesCachePattern) ==
    IF Depth(path) = 0 /\ ~matchesCachePattern THEN path
    ELSE IF Depth(path) = 0 /\ matchesCachePattern THEN Root
    ELSE <<path[1]>>

\* what a call detectLanguage(dirPath, langSignatures, langPriorities) can
\* return, over the iteration orders of langSignatures
DetectOutcomes(dirPath) ==
    UNION { { detectLanguage(dirPath, sigs, prios, o) : o \in MapOrders(DOMAIN sigs) } :
            sigs \in { langSignatures(cfg) }, prios \in { langPriorities(cfg) } }

\* lines 591-640: the callback's view of the scan's maps when it enters the
\* directory path, with the project root of path
Enter(path) ==
    [path             |-> path,
     depth            |-> Depth(path),
     matchesCachePattern |-> FirstMatch(Base(path), allPatterns(cfg)) # 0,
     projectRoot      |-> ProjectRootOf(path, FirstMatch(Base(path), allPatterns(cfg)) # 0),
     detectedLang     |-> "",
     findings         |-> findings,
     langCache        |-> langCache,
     depth0NoLang     |-> depth0NoLang,
     depth0Scanned    |-> depth0Scanned,
     excludedDirs     |-> excludedDirs,
     detectLog        |-> detectLog]

\* lines 643-656: a depth-0 directory records its project root as scanned,
\* and as excluded when its name is excluded from language detection
TrackDepth0(before) ==
    Only({ (
        IF ~(detectLang /\ s.depth = 0) THEN s
        ELSE IF Base(s.path) \in excludedFromLanguageDetection
        THEN [s EXCEPT !.depth0Scanned = @ \cup {s.projectRoot},
                       !.excludedDirs  = @ \cup {s.projectRoot},
                       !.langCache     = Put(@, s.projectRoot, "")]
        ELSE [s EXCEPT !.depth0Scanned = @ \cup {s.projectRoot}]
      ) : s \in {before} })

\* lines 659-675: the language of the project root, from langCache or from
\* detectLanguage(projectRoot), which returns rootLang
ProjectLanguage(before, rootLang) ==
    Only({ (
        IF ~detectLang THEN s
        ELSE IF s.projectRoot \in DOMAIN s.langCache
        THEN [s EXCEPT !.detectedLang = s.langCache[s.projectRoot],
                       !.depth0NoLang = IF s.langCache[s.projectRoot] # ""
                                        THEN @ \ {s.projectRoot} ELSE @]
        ELSE IF s.projectRoot \in s.excludedDirs THEN s
        ELSE [s EXCEPT !.detectedLang = rootLang,
                       !.langCache    = Put(@, s.projectRoot, rootLang),
                       !.depth0NoLang = IF s.depth = 0 /\ rootLang = ""
                                        THEN @ \cup {s.projectRoot} ELSE @,
                       !.detectLog    = Append(@, CallAt(s.projectRoot, rootLang, 667))]
      ) : s \in {before} })

\* lines 679-689: no language yet and above maxDepth: detectLanguage(path),
\* which returns localLang
LocalLanguage(before, localLang) ==
    Only({ (
        IF ~(detectLang /\ s.detectedLang = "" /\ s.depth < maxDepth
             /\ s.projectRoot \notin s.excludedDirs)
        THEN s
        ELSE IF localLang = ""
        THEN [s EXCEPT !.detectLog = Append(@, CallAt(s.path, localLang, 681))]
        ELSE [s EXCEPT !.detectedLang = localLang,
                       !.langCache    = Put(@, s.path, localLang),
                       !.detectLog    = Append(@, CallAt(s.path, localLang, 681))]
      ) : s \in {before} })

\* lines 692-720: no language yet and at maxDepth: detectLanguage(path),
\* which returns maxLang; a depth-0 directory without language is reported
MaxDepthLanguage(before, maxLang) ==
    Only({ (
        IF ~(detectLang /\ s.depth = maxDepth /\ s.detectedLang = ""
             /\ s.projectRoot \notin s.excludedDirs)
        THEN s
        ELSE IF maxLang # ""
        THEN [s EXCEPT !.detectedLang = maxLang,
                       !.langCache    = Put(@, s.path, maxLang),
                       !.detectLog    = Append(@, CallAt(s.path, maxLang, 694))]
        ELSE IF s.depth = 0
        THEN [s EXCEPT !.findings     = Append(@, Finding(s.path, s.path, "",
                                            getLanguageForExclusion("", s.path \in s.excludedDirs))),
                       !.depth0NoLang = @ \ {s.path},
                       !.detectLog    = Append(@, CallAt(s.path, maxLang, 694))]
        ELSE [s EXCEPT !.detectLog = Append(@, CallAt(s.path, maxLang, 694))]
      ) : s \in {before} })

\* lines 723-741: at maxDepth, a project root still recorded in depth0NoLang
\* and without language in langCache is reported
ReportDepth0NoLang(before) ==
    Only({ (
        IF /\ detectLang /\ s.depth = maxDepth
           /\ s.projectRoot \in s.depth0NoLang
           /\ (s.projectRoot \notin DOMAIN s.langCache \/ s.langCache[s.projectRoot] = "")
        THEN [s EXCEPT !.findings     = Append(@, Finding(s.projectRoot, s.projectRoot, "",
                                            getLanguageForExclusion("",
                                                s.projectRoot \in s.excludedDirs))),
                       !.depth0NoLang = @ \ {s.projectRoot}]
        ELSE s
      ) : s \in {before} })

\* lines 744-748: the patterns the directory is matched against
PatternsToCheck(s) ==
    IF detectLang /\ s.detectedLang # "" /\ s.detectedLang \in DOMAIN langToPatterns(cfg)
    THEN langToPatterns(cfg)[s.detectedLang]
    ELSE allPatterns(cfg)

\* a match loop that goes on after a match: one Finding for every pattern
\* that matches
FindingPerMatchingPattern(s) ==
    LET matching == SelectSeq(PatternsToCheck(s), LAMBDA p : matchPattern(Base(s.path), p))
    IN  [k \in 1..Len(matching) |->
            CacheFinding(s.path, s.projectRoot, matching[k], s.detectedLang)]

\* lines 753-780 for a directory some pattern matches: the loop returns at
\* the first pattern that matches, so one Finding is appended
MatchedFindings(s) ==
    <<CacheFinding(s.path, s.projectRoot,
                   PatternsToCheck(s)[FirstMatch(Base(s.path), PatternsToCheck(s))],
                   s.detectedLang)>>

\* lines 753-808: the first pattern that matches gives a cache Finding and
\* SkipDir; without a match a depth-0 directory without language is reported
\* (lines 786-806) and the walk goes on
MatchAndReturn(before) ==
    Only({ (
        IF FirstMatch(Base(s.path), PatternsToCheck(s)) # 0
        THEN [findings |-> s.findings \o MatchedFindings(s),
              langCache |-> s.langCache, depth0NoLang |-> s.depth0NoLang,
              depth0Scanned |-> s.depth0Scanned,
              findingsByPath |-> findingsByPath \cup {s.path},
              excludedDirs |-> s.excludedDirs, detectLog |-> s.detectLog,
              patternsToCheck |-> PatternsToCheck(s), ret |-> "SkipDir"]
        ELSE IF /\ detectLang /\ s.depth = 0 /\ s.detectedLang = ""
                /\ ~s.matchesCachePattern
                /\ s.path \notin findingsByPath
                /\ s.projectRoot \in s.depth0NoLang
        THEN [findings |-> Append(s.findings,
                                  Finding(s.projectRoot, s.projectRoot, "", NoLanguageFound)),
              langCache |-> s.langCache,
              depth0NoLang |-> s.depth0NoLang \ {s.projectRoot},
              depth0Scanned |-> s.depth0Scanned, findingsByPath |-> findingsByPath,
              excludedDirs |-> s.excludedDirs, detectLog |-> s.detectLog,
              patternsToCheck |-> PatternsToCheck(s), ret |-> "nil"]
        ELSE [findings |-> s.findings, langCache |-> s.langCache,
              depth0NoLang |-> s.depth0NoLang,
              depth0Scanned |-> s.depth0Scanned, findingsByPath |-> findingsByPath,
              excludedDirs |-> s.excludedDirs, detectLog |-> s.detectLog,
              patternsToCheck |-> PatternsToCheck(s), ret |-> "nil"]
      ) : s \in {before} })

\* The body of the callback for a directory other than the root and not
\* deeper than maxDepth.  rootLang, localLang and maxLang are what the calls
\* of detectLanguage at lines 667, 681 and 694 return when they are made.
\* The result holds the new values of the scan's maps, the findings and what
\* the callback returns.
Callback(path, rootLang, localLang, maxLang) ==
    MatchAndReturn(
      ReportDepth0NoLang(
        MaxDepthLanguage(
          LocalLanguage(
            ProjectLanguage(TrackDepth0(Enter(path)), rootLang),
            localLang),
          maxLang)))

-----------------------------------------------------------------------------
(* The inputs of a scan *)

\* two languages of the starter configuration, cut to one pattern and one
\* signature each (the configuration of TestScanDirectoryMapLookup and
\* TestDetectLanguage)
NodeLang   == Language("node", TRUE, 10, <<"node_modules">>, <<"package.json">>)
PythonLang == Language("python", TRUE, 5, <<".venv">>, <<"requirements.txt">>)

\* a python that lists node_modules as well, as nextjs and vue do in the
\* starter configuration (lines 206-217), after a wildcard that matches it:
\* the name node_modules then matches several of the patterns it is checked
\* against, with and without a detected language
SharingPythonLang ==
    Language("python", TRUE, 5, <<"node_*", "node_modules", ".venv">>, <<"requirements.txt">>)

ScanConfigs == { <<NodeLang, PythonLang>>, <<NodeLang, SharingPythonLang>> }

FileNames == { "package.json", "requirements.txt" }

\* the directory trees of at most n directories
RECURSIVE Forests(_)
Forests(n) ==
    IF n = 0 THEN { {} }
    ELSE LET smaller == Forests(n - 1)
         IN  smaller \cup
             UNION { { t \cup {Append(q, nm)} : q \in t \cup {Root}, nm \in DirNames } :
                     t \in smaller }

\* the subsets of S of at most k elements
RECURSIVE UpTo(_, _)
UpTo(S, k) ==
    IF k = 0 THEN { {} }
    ELSE LET smaller == UpTo(S, k - 1)
         IN  smaller \cup UNION { { x \cup {e} : e \in S } : x \in smaller }

\* the ways of placing at most n files in the directories of t
Placements(t, n) ==
    { [p \in t \cup {Root} |-> { slot[2] : slot \in { s \in placed : s[1] = p } }] :
      placed \in UpTo((t \cup {Root}) \X FileNames, n) }

\* the ways of placing files in the directories of t, within MaxEntries
FilePlacements(t) == Placements(t, MaxEntries - Cardinality(t))

-----------------------------------------------------------------------------
(* scanDirectory as a state machine *)

\* the command line without --clean, --yes and --json
NoFlags ==
    /\ flagClean = FALSE
    /\ flagYes = FALSE
    /\ flagJSON = FALSE

\* rep := Report{DryRun: !*flagClean, Findings: []Finding{}, Warnings: []string{}}
\* (lines 327-336; OS, Arch, When, ScanPath, MaxDepth and Hostname are left out)
Report(dryRun) ==
    [dryRun |-> dryRun, findings |-> <<>>, total |-> 0, warnings |-> <<>>]

\* nothing rendered yet
NoTable == [rows |-> <<>>, footer |-> <<>>]

\* lines 342-345, printed before the scan in every mode: the scan root and
\* the depth, and a second line under cfg.Options.DetectLanguage
ScanningLines ==
    <<"Scanning " \o PathString(Root) \o " (max depth: " \o ToString(maxDepth) \o ")...">>
    \o (IF detectLang
        THEN <<"Language detection enabled - scanning with language-specific patterns">>
        ELSE <<>>)

\* main when it calls scanDirectory (line 346)
MainStart ==
    /\ mainPc = "scan"
    /\ rep = Report(~flagClean)
    /\ out = ScanningLines
    /\ table = NoTable
    /\ cacheFindings = <<>>
    /\ stdin = <<>>
    /\ removeLog = <<>>

ScanStart ==
    /\ pc = "walk"
    /\ todo = <<Root>>
    /\ findings = <<>>
    /\ langCache = <<>>
    /\ depth0NoLang = {}
    /\ depth0Scanned = {}
    /\ findingsByPath = {}
    /\ excludedDirs = {}
    /\ depth0HasFindings = {}
    /\ walked = <<>>
    /\ detectLog = <<>>
    /\ walkErr = FALSE
    /\ warnings = <<>>
    /\ matchLog = <<>>

Init ==
    /\ cfg \in ScanConfigs
    /\ tree \in Forests(MaxEntries)
    /\ files \in FilePlacements(tree)
    /\ unreadable = {}
    /\ unstatable = {}
    /\ matchArgs = <<"", "">>
    /\ maxDepth \in 0..MaxDepthBound
    /\ detectLang \in BOOLEAN
    /\ ScanStart
    /\ NoFlags
    /\ MainStart

Inputs == <<cfg, tree, files, unreadable, unstatable, matchArgs, maxDepth, detectLang,
            flagClean, flagYes, flagJSON>>

\* the variables of main, which scanDirectory cannot reach
MainLocals == <<mainPc, rep, out, table, cacheFindings, stdin, removeLog>>

\* the callback when WalkDir hands it an error for path (lines 555-557):
\* `if err != nil { return nil }`
CallbackOnError(path) == "nil"

\* WalkDir that goes on into the directory whatever the callback returned
WalkOnIgnoringSkipDir(path, ret) ==
    IF ReadDir(path).err
    THEN Tail(todo)
    ELSE Children(path) \o Tail(todo)

\* WalkDir after the callback returned for the directory at the head of todo:
\* its sub-directories are walked next unless the callback said SkipDir or
\* the directory cannot be listed (the callback is then called a second time
\* with the error and returns nil)
WalkOn(path, ret) ==
    IF ret = "SkipDir" THEN Tail(todo)
    ELSE IF ReadDir(path).err
    THEN (IF CallbackOnError(path) \in {"nil", "SkipDir"} THEN Tail(todo) ELSE <<>>)
    ELSE Children(path) \o Tail(todo)

\* WalkDir returns an error: the callback returned one (other than SkipDir)
\* when it was told that the directory could not be read
WalkFails(path, ret) ==
    /\ ret # "SkipDir"
    /\ ReadDir(path).err
    /\ CallbackOnError(path) \notin {"nil", "SkipDir"}

\* the line written to os.Stderr when WalkDir returned an error
WalkErrorWarning == "warning: directory walk error"

\* the callback on the scan root: `if cleanPath == root { return nil }`
VisitRoot ==
    /\ pc = "walk" /\ todo # <<>> /\ Head(todo) = Root
    /\ todo' = WalkOn(Root, "nil")
    /\ walkErr' = (walkErr \/ WalkFails(Root, "nil"))
    /\ walked' = Append(walked, Walked(Root, <<>>))
    /\ UNCHANGED <<Inputs, MainLocals, pc, findings, langCache, depth0NoLang, depth0Scanned,
                   findingsByPath, excludedDirs, depth0HasFindings, detectLog,
                   warnings, matchLog>>

\* the callback on a directory deeper than maxDepth: `return filepath.SkipDir`
VisitTooDeep ==
    /\ pc = "walk" /\ todo # <<>> /\ Head(todo) # Root
    /\ Depth(Head(todo)) > maxDepth
    /\ todo' = WalkOn(Head(todo), "SkipDir")
    /\ walkErr' = (walkErr \/ WalkFails(Head(todo), "SkipDir"))
    /\ walked' = Append(walked, Walked(Head(todo), <<>>))
    /\ UNCHANGED <<Inputs, MainLocals, pc, findings, langCache, depth0NoLang, depth0Scanned,
                   findingsByPath, excludedDirs, depth0HasFindings, detectLog,
                   warnings, matchLog>>

\* the callback on any other directory
VisitDir ==
    /\ pc = "walk" /\ todo # <<>> /\ Head(todo) # Root
    /\ Depth(Head(todo)) <= maxDepth
    /\ LET path == Head(todo)
           projectRoot == ProjectRootOf(path, FirstMatch(Base(path), allPatterns(cfg)) # 0)
       IN  \E rootLang \in DetectOutcomes(projectRoot) :
           \E localLang, maxLang \in DetectOutcomes(path) :
              \E r \in { Callback(path, rootLang, localLang, maxLang) } :
                  /\ findings' = r.findings
                  /\ langCache' = r.langCache
                  /\ depth0NoLang' = r.depth0NoLang
                  /\ depth0Scanned' = r.depth0Scanned
                  /\ findingsByPath' = r.findingsByPath
                  /\ excludedDirs' = r.excludedDirs
                  /\ detectLog' = r.detectLog
                  /\ todo' = WalkOn(path, r.ret)
                  /\ walkErr' = (walkErr \/ WalkFails(path, r.ret))
                  /\ walked' = Append(walked, Walked(path, r.patternsToCheck))
    /\ UNCHANGED <<Inputs, MainLocals, pc, depth0HasFindings, warnings, matchLog>>

\* the keys of depth0Scanned the inner loop of lines 820-825 can stop at for
\* finding f: `range depth0Scanned` may deliver them in any order, and the
\* loop breaks at the first one that f.Path equals or lies beneath
MarkChoices(f) == { r \in depth0Scanned : IsUnder(f.path, r) }

\* a marking loop that never yields its map
MarkOutcomesUnfinished(i) == {}

\* the values depth0HasFindings can have after lines 817-826 have gone
\* through findings[i..]
RECURSIVE MarkOutcomes(_)
MarkOutcomes(i) ==
    IF i > Len(findings) THEN { {} }
    ELSE IF MarkChoices(findings[i]) = {} THEN MarkOutcomes(i + 1)
    ELSE { {r} \cup rest : r \in MarkChoices(findings[i]), rest \in MarkOutcomes(i + 1) }

TrailingFinding(projectRoot) ==
    Finding(projectRoot, projectRoot, "",
            getLanguageForExclusion(
                IF projectRoot \in DOMAIN langCache THEN langCache[projectRoot] ELSE "",
                projectRoot \in excludedDirs))

\* lines 830-846 for the keys of depth0Scanned delivered in the order `order`
RECURSIVE Trailing(_, _)
Trailing(order, marked) ==
    IF order = <<>> THEN <<>>
    ELSE (IF Head(order) \notin marked THEN <<TrailingFinding(Head(order))>> ELSE <<>>)
         \o Trailing(Tail(order), marked)

\* WalkDir has returned: lines 814-848, up to `return findings`
AfterWalk ==
    /\ pc = "walk" /\ todo = <<>>
    /\ \E marked \in MarkOutcomes(1) :
       \E order \in MapOrders(depth0Scanned) :
          /\ depth0HasFindings' = marked
          /\ findings' = findings \o Trailing(order, marked)
    /\ warnings' = IF walkErr THEN Append(warnings, WalkErrorWarning) ELSE warnings
    /\ pc' = "done"
    /\ UNCHANGED <<Inputs, MainLocals, todo, langCache, depth0NoLang, depth0Scanned,
                   findingsByPath, excludedDirs, walked, detectLog, walkErr, matchLog>>

Next ==
    \/ VisitRoot
    \/ VisitTooDeep
    \/ VisitDir
    \/ AfterWalk

Spec == Init /\ [][Next]_vars

-----------------------------------------------------------------------------
(* detectLanguage on its own: one call on the directory Root *)

\* further languages of the starter configuration, cut down the same way
JavaLang   == Language("java", TRUE, 5, <<"target">>, <<"pom.xml", ".mvn">>)
DotnetLang == Language("dotnet", TRUE, 5, <<"bin">>, <<"*.csproj">>)
\* node and python with equal effective priority: python's is left unset
TiedNodeLang    == Language("node", TRUE, 5, <<"node_modules">>, <<"package.json">>)
UnsetPythonLang == Language("python", TRUE, 0, <<".venv">>, <<"requirements.txt">>)
DisabledNodeLang == Language("node", FALSE, 1, <<"node_modules">>, <<"package.json">>)

DetectConfigs ==
    { <<NodeLang, PythonLang>>,
      <<TiedNodeLang, UnsetPythonLang>>,
      <<UnsetPythonLang, TiedNodeLang>>,
      <<DotnetLang, NodeLang>>,
      <<JavaLang, NodeLang>>,
      <<DisabledNodeLang, PythonLang>> }

DetectFileNames == { "package.json", "requirements.txt", "App.CSPROJ", "pom.xml" }

DetectDirNames == { ".mvn", "proj" }

InitDetect ==
    /\ cfg \in DetectConfigs
    /\ tree \in { { <<n>> : n \in ns } : ns \in SUBSET DetectDirNames }
    /\ files \in [ {Root} \cup tree -> SUBSET DetectFileNames ]
    /\ \A p \in tree : files[p] = {}
    /\ unreadable \in { {}, {Root} }
    /\ unstatable = {}
    /\ matchArgs = <<"", "">>
    /\ maxDepth = 0
    /\ detectLang = TRUE
    /\ pc = "detect"
    /\ todo = <<>>
    /\ findings = <<>>
    /\ langCache = <<>>
    /\ depth0NoLang = {}
    /\ depth0Scanned = {}
    /\ findingsByPath = {}
    /\ excludedDirs = {}
    /\ depth0HasFindings = {}
    /\ walked = <<>>
    /\ detectLog = <<>>
    /\ walkErr = FALSE
    /\ warnings = <<>>
    /\ matchLog = <<>>
    /\ NoFlags
    /\ MainStart

\* the priorities as a direct caller passes them: the configured numbers,
\* an unset priority being 0 or having no key at all
RawPriorities(c) ==
    { [n \in LangNames(c) |-> LastNamed(c, n).Priority],
      [n \in { m \in LangNames(c) : LastNamed(c, m).Priority # 0 } |->
          LastNamed(c, n).Priority] }

\* detectLanguage(Root, langSignatures, langPriorities)
Detect ==
    /\ pc = "detect"
    /\ \E order \in MapOrders(DOMAIN langSignatures(cfg)) :
       \E prios \in RawPriorities(cfg) \cup { langPriorities(cfg) } :
          detectLog' = Append(detectLog,
                              Call(Root, detectLanguage(Root, langSignatures(cfg),
                                                        prios, order)))
    /\ pc' = "detected"
    /\ UNCHANGED <<Inputs, MainLocals, todo, findings, langCache, depth0NoLang, depth0Scanned,
                   findingsByPath, excludedDirs, depth0HasFindings, walked,
                   walkErr, warnings, matchLog>>

NextDetect == Detect

SpecDetect == InitDetect /\ [][NextDetect]_vars

-----------------------------------------------------------------------------
(* scanDirectory on trees with failures: specification SpecWalkError *)

\* scans of trees of one entry less than those of Init, in which nothing
\* fails, or one directory (the scan root included) cannot be listed, or one
\* regular file cannot be stat-ed
InitWalkError ==
    /\ cfg \in ScanConfigs
    /\ tree \in Forests(MaxEntries - 1)
    /\ files \in Placements(tree, MaxEntries - 1 - Cardinality(tree))
    /\ unreadable \in UpTo(tree \cup {Root}, 1)
    /\ unstatable \in UpTo({ <<p, n>> : p \in tree \cup {Root}, n \in FileNames }, 1)
    /\ unreadable = {} \/ unstatable = {}
    /\ \A slot \in unstatable : slot[2] \in files[slot[1]]
    /\ matchArgs = <<"", "">>
    /\ maxDepth \in 0..MaxDepthBound
    /\ detectLang \in BOOLEAN
    /\ ScanStart
    /\ NoFlags
    /\ MainStart

SpecWalkError == InitWalkError /\ [][Next]_vars

\* scanDirectory is sequential code: a step that can be taken is taken
SpecWalkErrorFair == SpecWalkError /\ WF_vars(Next)

-----------------------------------------------------------------------------
(* matchPattern on its own: specification SpecMatch *)

\* directory names and patterns of the calls: the names and patterns of
\* TestMatchPattern, prefixes of them, and strings with `*` and `?` inside
MatchNames ==
    { "", "a", "ab", "a*", "a*b", "a?", "build", "build-x", "cmake-build",
      "cmake-build-", "cmake-build-debug", "node_modules" }

MatchPatterns ==
    { "", "*", "a", "a*", "a**", "a*b", "a?", "build", "build-*",
      "cmake-build-*", "node_modules", ".venv" }

InitMatch ==
    /\ matchArgs \in MatchNames \X MatchPatterns
    /\ cfg = <<>>
    /\ tree = {}
    /\ files = [p \in {Root} |-> {}]
    /\ unreadable = {}
    /\ unstatable = {}
    /\ maxDepth = 0
    /\ detectLang = FALSE
    /\ pc = "match"
    /\ todo = <<>>
    /\ findings = <<>>
    /\ langCache = <<>>
    /\ depth0NoLang = {}
    /\ depth0Scanned = {}
    /\ findingsByPath = {}
    /\ excludedDirs = {}
    /\ depth0HasFindings = {}
    /\ walked = <<>>
    /\ detectLog = <<>>
    /\ walkErr = FALSE
    /\ warnings = <<>>
    /\ matchLog = <<>>
    /\ NoFlags
    /\ MainStart

\* matchPattern(name, pattern)
Match ==
    /\ pc = "match"
    /\ matchLog' = Append(matchLog, matchPattern(matchArgs[1], matchArgs[2]))
    /\ pc' = "matched"
    /\ UNCHANGED <<Inputs, MainLocals, todo, findings, langCache, depth0NoLang, depth0Scanned,
                   findingsByPath, excludedDirs, depth0HasFindings, walked,
                   detectLog, walkErr, warnings>>

NextMatch == Match

SpecMatch == InitMatch /\ [][NextMatch]_vars

-----------------------------------------------------------------------------
(* main: presentation (human, the JSON report, displayDetailed) *)

\* fmt.Sprintf("%d", n) with n padded to at least two digits ("%02d")
TwoDigits(n) == IF n < 10 THEN "0" \o ToString(n) ELSE ToString(n)

\* an int64 n >= 0 written in base 1024, lowest digit first: dividing by
\* 1024, as the loop of human does, drops the lowest digit into the fraction
RECURSIVE Digits1024(_)
Digits1024(n) ==
    IF n < 1024 THEN <<n>> ELSE <<n % 1024>> \o Digits1024(n \div 1024)

\* the integer whose base-1024 digits, lowest first, are ds
RECURSIVE Value1024(_)
Value1024(ds) ==
    IF ds = <<>> THEN 0 ELSE Head(ds) + 1024 * Value1024(Tail(ds))

\* the number of bits of a digit d >= 1
RECURSIVE BitLen(_)
BitLen(d) == IF d <= 1 THEN d ELSE 1 + BitLen(d \div 2)

RECURSIVE Pow2(_)
Pow2(k) == IF k = 0 THEN 1 ELSE 2 * Pow2(k - 1)

\* ds with c added to its lowest digit, the carries taken upward
RECURSIVE AddLow(_, _)
AddLow(ds, c) ==
    IF c = 0 THEN ds
    ELSE IF ds = <<>> THEN <<c>>
    ELSE <<(Head(ds) + c) % 1024>> \o AddLow(Tail(ds), (Head(ds) + c) \div 1024)

\* ds without its k lowest bits (k in 1..10, and a digit above the lowest),
\* rounded to the nearest multiple of 2^k, a tie to the even one
RoundBits(ds, k) ==
    LET m    == Pow2(k)
        r    == ds[1] % m
        odd  == IF k < 10 THEN (ds[1] \div m) % 2 = 1 ELSE ds[2] % 2 = 1
        up   == 2 * r > m \/ (2 * r = m /\ odd)
        down == [ds EXCEPT ![1] = ds[1] - r]
    IN  IF up THEN <<(down[1] + m) % 1024>> \o AddLow(Tail(down), (down[1] + m) \div 1024)
        ELSE down

\* v := float64(n) (line 117) for an int64 n >= 0 given by its digits: a
\* float64 keeps 53 bits, so an n of more bits (at most 63) loses its lowest
\* ones by rounding to the nearest, ties to even
Float64(ds) ==
    LET bits == 10 * (Len(ds) - 1) + BitLen(ds[Len(ds)])
    IN  IF bits <= 53 THEN ds ELSE RoundBits(ds, bits - 53)

\* 100 times the fraction whose base-1024 digits, lowest first, are frac:
\* the whole part (carry) and the digits of the fraction that is left
RECURSIVE Times100(_, _)
Times100(frac, carry) ==
    IF frac = <<>> THEN [carry |-> carry, rest |-> <<>>]
    ELSE LET up == Times100(Tail(frac), (100 * Head(frac) + carry) \div 1024)
         IN  [carry |-> up.carry,
              rest  |-> <<(100 * Head(frac) + carry) % 1024>> \o up.rest]

\* the hundredths %.2f prints for a value with x.carry whole hundredths and
\* the fraction x.rest of a hundredth left over: the nearest, and an exact
\* half to the even digit
RoundHalfEven(x) ==
    LET top   == x.rest[Len(x.rest)]
        low   == { i \in 1..(Len(x.rest) - 1) : x.rest[i] # 0 }
        above == top > 512 \/ (top = 512 /\ low # {})
        half  == top = 512 /\ low = {}
    IN  IF above \/ (half /\ x.carry % 2 = 1) THEN x.carry + 1 ELSE x.carry

\* fmt.Sprintf("%.2f", v) for v = whole + the fraction with the base-1024
\* digits frac (lowest first, at least one).  The divisions by 1024 of a
\* float64 are exact, and %.2f prints the decimal nearest to the exact
\* value, ties to even
FormatHundredths(whole, frac) ==
    LET h == RoundHalfEven(Times100(frac, 0))
    IN  ToString(whole + h \div 100) \o "." \o TwoDigits(h % 100)

\* units of line 116
units == <<"KB", "MB", "GB", "TB">>

\* the loop of lines 118-123 at the unit of index i (from 1): v is n with
\* its i lowest digits as the fraction, and v < 1024 exactly when one digit
\* is left above them
RECURSIVE humanUnit(_, _)
humanUnit(ds, i) ==
    IF Len(ds) - i <= 1 \/ i = Len(units)
    THEN FormatHundredths(Value1024(SubSeq(ds, i + 1, Len(ds))), SubSeq(ds, 1, i))
         \o " " \o units[i]
    ELSE humanUnit(ds, i + 1)

\* human of a number given by its base-1024 digits, lowest first and without
\* leading zeros; this reaches the sizes from 2^31 on, which an integer of
\* the model cannot hold (1 TB is <<0, 0, 0, 0, 1>>)
humanDigits(ds) ==
    IF Len(ds) = 1 THEN ToString(ds[1]) \o " B" ELSE humanUnit(Float64(ds), 1)

\* human(n) (lines 112-125)
human(n) == humanDigits(Digits1024(n))

\* for _, f := range findings { total += f.SizeBytes } (lines 349-352)
RECURSIVE TotalSize(_)
TotalSize(fs) ==
    IF fs = <<>> THEN 0 ELSE Head(fs).sizeBytes + TotalSize(Tail(fs))

RECURSIVE TotalItems(_)
TotalItems(fs) ==
    IF fs = <<>> THEN 0 ELSE Head(fs).items + TotalItems(Tail(fs))

\* strings.Join(ss, sep)
RECURSIVE Join(_, _)
Join(ss, sep) ==
    IF ss = <<>> THEN ""
    ELSE IF Len(ss) = 1 THEN ss[1]
    ELSE ss[1] \o sep \o Join(Tail(ss), sep)

\* the document json.MarshalIndent(rep) prints, cut to the fields dry_run,
\* total_bytes and the number of findings
MarshalReport(r) ==
    "{\"dry_run\": " \o (IF r.dryRun THEN "true" ELSE "false")
    \o ", \"total_bytes\": " \o ToString(r.total)
    \o ", \"findings\": " \o ToString(Len(r.findings)) \o "}"

\* the project a Finding is grouped under (lines 900-904); ProjectRoot is
\* set in every Finding scanDirectory returns, so the fall-back to Path is
\* not taken
projectPath(f) == f.projectRoot

\* first pass (lines 878-891): the projects with an actual cache directory
projectsWithCache(fs) ==
    { projectPath(fs[i]) : i \in { j \in 1..Len(fs) : fs[j].err = "" /\ isCacheDirectory(fs[j]) } }

\* the Findings that enter projectGroups (lines 896-909): no Err, and no
\* status Finding of a project that has cache directories
Grouped(fs) ==
    SelectSeq(fs, LAMBDA f :
        /\ f.err = ""
        /\ ~(f.pattern = "" /\ projectPath(f) \in projectsWithCache(fs)))

\* lines 912-915
cacheType(f) == IF f.pattern = "" THEN "(no cache directories)" ELSE f.pattern

\* projectGroups[path][type] (lines 917-932): sizes and items added up, the
\* language of the first Finding of the group
cacheTypeSummary(fs, path, type) ==
    LET group == SelectSeq(Grouped(fs), LAMBDA f : projectPath(f) = path /\ cacheType(f) = type)
    IN  [name      |-> type,
         SizeBytes |-> TotalSize(group),
         Items     |-> TotalItems(group),
         Language  |-> group[1].language]

\* the keys of projectGroups, and of projectGroups[path]
ProjectPaths(fs) == { projectPath(Grouped(fs)[i]) : i \in 1..Len(Grouped(fs)) }

CacheTypes(fs, path) ==
    { cacheTypeSummary(fs, path, cacheType(Grouped(fs)[i])) :
        i \in { j \in 1..Len(Grouped(fs)) : projectPath(Grouped(fs)[j]) = path } }

\* the orders sort.Slice (largest SizeBytes first, lines 993-995) can leave
\* the cache types S in when they were appended in map iteration order:
\* every arrangement without a smaller size before a larger one
LargestTypeFirst(S) ==
    { o \in MapOrders(S) :
        \A i, j \in 1..Cardinality(S) : i < j => o[i].SizeBytes >= o[j].SizeBytes }

\* the same for the projects S and their totalSize (lines 969-971)
LargestProjectFirst(S) ==
    { o \in MapOrders(S) :
        \A i, j \in 1..Cardinality(S) : i < j => o[i].totalSize >= o[j].totalSize }

\* the projectEntry values of lines 944-966 for path: `range cacheTypes`
\* finds the first non-empty language in any order
projectEntries(fs, path) ==
    LET types == CacheTypes(fs, path)
        langs == { t.Language : t \in { u \in types : u.Language # "" } }
    IN  { [path       |-> path,
           totalSize  |-> TotalSize(SelectSeq(Grouped(fs), LAMBDA f : projectPath(f) = path)),
           totalItems |-> TotalItems(SelectSeq(Grouped(fs), LAMBDA f : projectPath(f) = path)),
           cacheTypes |-> types,
           language   |-> l] : l \in IF langs = {} THEN {""} ELSE langs }

\* the row table.Append receives for a project (lines 979-1009)
TableRows(e) ==
    { [path       |-> e.path,
       cacheTypes |-> Join([i \in 1..Len(o) |-> o[i].name], "; "),
       language   |-> e.language,
       totalSize  |-> human(e.totalSize),
       totalItems |-> ToString(e.totalItems)] :
      o \in LargestTypeFirst(e.cacheTypes) }

\* the rows table.Append can receive for the projects in the order o
TableRowSeqs(o) ==
    { r \in [1..Len(o) -> UNION { TableRows(o[i]) : i \in 1..Len(o) }] :
        \A i \in 1..Len(o) : r[i] \in TableRows(o[i]) }

\* totalItems += project.totalItems over the rows (line 1011)
RECURSIVE SumTotalItems(_)
SumTotalItems(o) ==
    IF o = <<>> THEN 0 ELSE Head(o).totalItems + SumTotalItems(Tail(o))

\* table.Footer("TOTAL", "", "", human(total), totalItems) (line 1014)
TableFooter(o, total) ==
    [totalSize |-> human(total), totalItems |-> ToString(SumTotalItems(o))]

\* the slices projectEntries can be after lines 944-971: one entry per key
\* of projectGroups, appended in map iteration order, sorted largest first
SortedProjectEntries(fs) ==
    UNION { LargestProjectFirst({ pick[p] : p \in ProjectPaths(fs) }) :
            pick \in { f \in [ProjectPaths(fs) ->
                                UNION { projectEntries(fs, p) : p \in ProjectPaths(fs) }] :
                       \A p \in ProjectPaths(fs) : f[p] \in projectEntries(fs, p) } }

\* displayDetailed(findings, total): the tables it can render
displayDetailed(fs, total) ==
    UNION { { [rows |-> r, footer |-> TableFooter(o, total)] : r \in TableRowSeqs(o) } :
            o \in SortedProjectEntries(fs) }

-----------------------------------------------------------------------------
(* main after the scan: report, confirmation, removal, re-scan *)

\* the variables of scanDirectory
ScanLocals == <<pc, todo, findings, langCache, depth0NoLang, depth0Scanned,
                findingsByPath, excludedDirs, depth0HasFindings, walked,
                detectLog, walkErr, warnings, matchLog>>

\* `if *flagClean` (line 379)
CleanAlways == TRUE

CleanRequested == flagClean

\* lines 381-388: the findings with a cache pattern
cacheFindingsOf(fs) == SelectSeq(fs, isCacheDirectory)

\* sort.Slice(sortedFindings, SizeBytes >) (lines 398-402) on a short slice:
\* insertion sort, which moves an element left only past strictly smaller
\* sizes
RECURSIVE sortedFindings(_)
sortedFindings(fs) ==
    IF Len(fs) <= 1 THEN fs
    ELSE LET n      == Len(fs)
             sorted == sortedFindings(SubSeq(fs, 1, n - 1))
             x      == fs[n]
             later  == { i \in 1..(n - 1) : sorted[i].sizeBytes < x.sizeBytes }
             pos    == IF later = {} THEN n
                       ELSE CHOOSE i \in later : \A j \in later : i <= j
         IN  SubSeq(sorted, 1, pos - 1) \o <<x>> \o SubSeq(sorted, pos, n - 1)

\* one line of the list of lines 403-405
PromptLine(f) == "  - " \o PathString(f.path) \o " (" \o human(f.sizeBytes) \o ")"

\* lines 396-406: the warning, the directories largest first, the question
PromptLines(cf) ==
    <<"WARNING: This will delete " \o ToString(Len(cf)) \o " cache directories:">>
    \o [i \in 1..Len(cf) |-> PromptLine(sortedFindings(cf)[i])]
    \o <<"Continue? [y/N]: ">>

\* fmt.Printf("Dry-run: %v\n\n", rep.DryRun) (line 368)
DryRunLine(r) == "Dry-run: " \o (IF r.dryRun THEN "true" ELSE "false")

\* lines 458-463
WarningLines(r) ==
    IF Len(r.warnings) > 0
    THEN <<"Warnings:">> \o [i \in 1..Len(r.warnings) |-> " - " \o r.warnings[i]]
    ELSE <<>>

\* a text as strings.ToLower and strings.TrimSpace read it, rune by rune: the
\* sequence of its runes, where a rune of ASCII is the string of that one
\* character and a rune above U+007F is the string of its name ("U+0085")
RECURSIVE Runes(_)
Runes(s) ==
    IF Len(s) = 0 THEN <<>> ELSE <<SubSeq(s, 1, 1)>> \o Runes(SubSeq(s, 2, Len(s)))

\* strings.ToLower on a sequence of runes; of the runes above U+007F the
\* model has only those of WhiteSpace, which have no lower case
ToLowerRunes(r) == [i \in 1..Len(r) |-> LowerChar(r[i])]

\* unicode.IsSpace, by which strings.TrimSpace strips: tab, line feed,
\* vertical tab (written as the character itself), form feed, carriage
\* return, space, and the spaces above U+007F
WhiteSpace ==
    { "\t", "\n", "", "\f", "\r", " ", "U+0085", "U+00A0", "U+1680",
      "U+2000", "U+2001", "U+2002", "U+2003", "U+2004", "U+2005", "U+2006",
      "U+2007", "U+2008", "U+2009", "U+200A", "U+2028", "U+2029", "U+202F",
      "U+205F", "U+3000" }

\* strings.TrimSpace on a sequence of runes
RECURSIVE TrimSpace(_)
TrimSpace(r) ==
    IF Len(r) = 0 THEN r
    ELSE IF r[1] \in WhiteSpace THEN TrimSpace(Tail(r))
    ELSE IF r[Len(r)] \in WhiteSpace THEN TrimSpace(SubSeq(r, 1, Len(r) - 1))
    ELSE r

\* a confirmation that takes everything but `n` for a yes
ConfirmedUnlessNo(response) == response # Runes("n")

\* `response != "y" && response != "yes"` of line 414, negated
Confirmed(response) == response = Runes("y") \/ response = Runes("yes")

\* what can be typed at the prompt, without the end of the line (one answer
\* in capitals between a form feed and a no-break space)
Responses ==
    { Runes("y"), Runes("yes"), <<"\f", "Y", "E", "S", "U+00A0">>, <<>>,
      Runes("n"), Runes("yess") }

\* err.Error() of io.EOF, the error of a reader at the end of its input
EOF == "EOF"

\* reader.ReadString('\n'): a line with its newline, or an error (end of
\* input) with the text read before it
ReadString(text, failed) ==
    [line |-> IF failed THEN text ELSE text \o <<"\n">>, err |-> failed]

\* lines 347-418, from the return of scanDirectory up to the prompt: totals,
\* output, and the decision whether anything is to be deleted.  Of the
\* output, the lines `Config:` and `Scan:` (366-367: the path of the config
\* file and the time) and the empty lines are left out
MainReport ==
    /\ mainPc = "scan" /\ pc = "done"
    /\ \E r \in { [rep EXCEPT !.findings = findings, !.total = TotalSize(findings)] } :
          /\ rep' = r
          /\ IF flagJSON
             THEN /\ out' = Append(out, MarshalReport(r))
                  /\ mainPc' = "exit"
                  /\ UNCHANGED <<table, cacheFindings>>
             ELSE IF Len(findings) = 0
             THEN /\ out' = out \o <<DryRunLine(r), "No cache directories found.">>
                  /\ mainPc' = "exit"
                  /\ UNCHANGED <<table, cacheFindings>>
             ELSE /\ table' \in displayDetailed(findings, r.total)
                  /\ IF ~CleanRequested
                     THEN /\ out' = out \o <<DryRunLine(r)>> \o WarningLines(r)
                          /\ mainPc' = "exit"
                          /\ UNCHANGED cacheFindings
                     ELSE /\ cacheFindings' = cacheFindingsOf(findings)
                          /\ IF Len(cacheFindingsOf(findings)) = 0
                             THEN /\ out' = out \o <<DryRunLine(r),
                                                     "No cache directories found to delete.">>
                                  /\ mainPc' = "exit"
                             ELSE IF ~flagYes
                             THEN /\ out' = out \o <<DryRunLine(r)>>
                                               \o PromptLines(cacheFindingsOf(findings))
                                  /\ mainPc' = "prompt"
                             ELSE /\ out' = out \o <<DryRunLine(r),
                                                     "Deleting cache directories...">>
                                  /\ mainPc' = "delete"
    /\ UNCHANGED <<Inputs, ScanLocals, stdin, removeLog>>

\* lines 407-420: the answer is read; an input error and every answer other
\* than y or yes end the run
MainAnswer ==
    /\ mainPc = "prompt"
    /\ \E text \in Responses, failed \in BOOLEAN :
       \E read \in { ReadString(text, failed) } :
          /\ stdin' = Append(stdin, read)
          /\ IF read.err
             THEN /\ out' = Append(out, "input error: " \o EOF)
                  /\ mainPc' = "exit"
             ELSE IF ~Confirmed(TrimSpace(ToLowerRunes(read.line)))
             THEN /\ out' = Append(out, "Cancelled.")
                  /\ mainPc' = "exit"
             ELSE /\ out' = Append(out, "Deleting cache directories...")
                  /\ mainPc' = "delete"
    /\ UNCHANGED <<Inputs, ScanLocals, rep, table, cacheFindings, removeLog>>

\* a loop that gives up at the first failure
RemovalPendingUntilFailure ==
    /\ Len(removeLog) < Len(cacheFindings)
    /\ \A i \in 1..Len(removeLog) : removeLog[i].ok

\* `for _, f := range cacheFindings` of line 425 has an element left
RemovalPending == Len(removeLog) < Len(cacheFindings)

\* the directories at or beneath path
Beneath(path) == { t \in tree : IsUnder(t, path) }

\* the directories beneath path that os.RemoveAll cannot empty: those it
\* cannot open (the ones WalkDir cannot list) and that hold something
Stuck(path) ==
    { d \in Beneath(path) \cap unreadable :
        files[d] # {} \/ \E t \in tree : IsUnder(t, d) /\ t # d }

\* the directories os.RemoveAll(path) cannot take anything out of
Sealed(path) == UNION { Beneath(d) : d \in Stuck(path) }

\* what a failing os.RemoveAll(path) can leave of the directories: it
\* removes everything it can and returns the first error, so path stays
\* with any part of what was beneath it, every directory left with its
\* parent, and what it cannot open stays whole
Remnants(path) ==
    { K \in SUBSET Beneath(path) :
        /\ path \in K
        /\ Sealed(path) \subseteq K
        /\ \A t \in K : Len(t) > Len(path) => SubSeq(t, 1, Len(t) - 1) \in K }

\* the regular files in the directories of K
FilesIn(K) == { slot \in K \X FileNames : slot[2] \in files[slot[1]] }

\* the file system after os.RemoveAll(path) has taken the directories of
\* Beneath(path) outside K and the files of gone
AfterRemoveAll(path, K, gone) ==
    LET left == (tree \ Beneath(path)) \cup K
    IN  [tree       |-> left,
         files      |-> [p \in left \cup {Root} |->
                            { n \in files[p] : <<p, n>> \notin gone }],
         unreadable |-> { p \in unreadable : p \in left \cup {Root} },
         unstatable |-> { s \in unstatable : s[1] \in left \cup {Root} /\ s \notin gone }]

\* err.Error() of the *PathError os.RemoveAll returns; the file system of
\* the model refuses with EACCES only, as in ReadDirError
PathError(op, name) == op \o " " \o name \o ": permission denied"

\* the errors a failing os.RemoveAll(path) can return when it leaves the
\* directories K without the files of gone.  It returns the first error it
\* met, in the order the directories list their entries: that of a file
\* left (unlinkat), of a directory left that it cannot open (openfdat), or
\* of a directory left empty that cannot be taken out of its parent
\* (unlinkat); a directory that still holds something it could open is not
\* named, the error being the one from within
RemoveAllErrors(path, K, gone) ==
    { PathError("unlinkat", PathString(slot[1]) \o "/" \o slot[2]) :
        slot \in FilesIn(K \ Sealed(path)) \ gone }
    \cup { PathError("openfdat", PathString(d)) :
             d \in { e \in K \cap unreadable :
                       \A u \in Stuck(path) : u = e \/ ~IsUnder(e, u) } }
    \cup { PathError("unlinkat", PathString(d)) :
             d \in { e \in K \ (Sealed(path) \cup unreadable) :
                       /\ \A n \in files[e] : <<e, n>> \in gone
                       /\ \A t \in K : t = e \/ ~IsUnder(t, e) } }

\* lines 425-431, one iteration: os.RemoveAll on the next cache directory.
\* It succeeds, and the directory is gone with all beneath it, or it fails
\* after removing any part of what was beneath the directory
MainRemove ==
    /\ mainPc = "delete"
    /\ RemovalPending
    /\ \E path \in { cacheFindings[Len(removeLog) + 1].path } :
       \E ok \in IF Stuck(path) = {} THEN BOOLEAN ELSE {FALSE} :
       \E K \in IF ok THEN {{}} ELSE Remnants(path) :
       \E gone \in IF ok THEN {{}} ELSE SUBSET FilesIn(K \ Sealed(path)) :
       \E err \in IF ok THEN {""} ELSE RemoveAllErrors(path, K, gone) :
       \E after \in { AfterRemoveAll(path, K, gone) } :
          /\ removeLog' = Append(removeLog, [path |-> path, ok |-> ok, err |-> err])
          /\ tree' = after.tree
          /\ files' = after.files
          /\ unreadable' = after.unreadable
          /\ unstatable' = after.unstatable
    /\ UNCHANGED <<cfg, matchArgs, maxDepth, detectLang, flagClean, flagYes, flagJSON,
                   ScanLocals, mainPc, rep, out, table, cacheFindings, stdin>>

\* lines 433-435: the loop is over; scanDirectory is called a second time
MainRescan ==
    /\ mainPc = "delete"
    /\ ~RemovalPending
    /\ out' = Append(out, "Re-scanning after cleanup...")
    /\ mainPc' = "rescan"
    /\ pc' = "walk"
    /\ todo' = <<Root>>
    /\ findings' = <<>>
    /\ langCache' = <<>>
    /\ depth0NoLang' = {}
    /\ depth0Scanned' = {}
    /\ findingsByPath' = {}
    /\ excludedDirs' = {}
    /\ depth0HasFindings' = {}
    /\ walked' = <<>>
    /\ detectLog' = <<>>
    /\ walkErr' = FALSE
    /\ warnings' = <<>>
    /\ UNCHANGED <<Inputs, matchLog, rep, table, cacheFindings, stdin, removeLog>>

\* fmt.Sprintf("%s: %v", f.Path, err) of line 427
RemoveError(a) == PathString(a.path) \o ": " \o a.err

\* the lines of 443-455: how many directories went, how much was freed, and
\* the errors of the removals
SummaryLines(afterFindings) ==
    LET beforeTotal  == TotalSize(cacheFindings)
        afterTotal   == TotalSize(cacheFindingsOf(afterFindings))
        failed       == SelectSeq(removeLog, LAMBDA a : ~a.ok)
        deletedCount == Len(SelectSeq(removeLog, LAMBDA a : a.ok))
    IN  <<"Deleted " \o ToString(deletedCount) \o " directories"
          \o (IF beforeTotal - afterTotal > 0
              THEN ", freed " \o human(beforeTotal - afterTotal) ELSE "")>>
        \o (IF Len(failed) > 0
            THEN <<"Errors:">> \o [i \in 1..Len(failed) |-> "  - " \o RemoveError(failed[i])]
            ELSE <<>>)

\* lines 436-463: the second scan has returned
MainSummary ==
    /\ mainPc = "rescan" /\ pc = "done"
    /\ out' = out \o SummaryLines(findings) \o WarningLines(rep)
    /\ mainPc' = "exit"
    /\ UNCHANGED <<Inputs, ScanLocals, rep, table, cacheFindings, stdin, removeLog>>

\* runs of main on the trees of InitWalkError in which every file can be
\* stat-ed, with every combination of --clean, --yes and --json
InitMain ==
    /\ cfg \in ScanConfigs
    /\ tree \in Forests(MaxEntries - 1)
    /\ files \in Placements(tree, MaxEntries - 1 - Cardinality(tree))
    /\ unreadable \in UpTo(tree \cup {Root}, 1)
    /\ unstatable = {}
    /\ matchArgs = <<"", "">>
    /\ maxDepth \in 0..MaxDepthBound
    /\ detectLang \in BOOLEAN
    /\ flagClean \in BOOLEAN
    /\ flagYes \in BOOLEAN
    /\ flagJSON \in BOOLEAN
    /\ MainStart
    /\ ScanStart

NextMain ==
    \/ VisitRoot
    \/ VisitTooDeep
    \/ VisitDir
    \/ AfterWalk
    \/ MainReport
    \/ MainAnswer
    \/ MainRemove
    \/ MainRescan
    \/ MainSummary

SpecMain == InitMain /\ [][NextMain]_vars

-----------------------------------------------------------------------------
(* Vocabulary of the properties *)

Done == pc = "done"

Depth0Dirs == { p \in tree : Depth(p) = 0 }

FindingSet == { findings[i] : i \in 1..Len(findings) }

\* the positions in the result of the Findings whose path is p
FindingsAt(p) == { i \in 1..Len(findings) : findings[i].path = p }

\* q lies strictly beneath p
StrictlyUnder(q, p) == IsUnder(q, p) /\ Len(q) > Len(p)

\* every directory the scan has touched: handed to the callback, given to
\* detectLanguage, or reported
Touched ==
    { walked[i].path : i \in 1..Len(walked) } \cup
    { detectLog[i].dir : i \in 1..Len(detectLog) } \cup
    { f.path : f \in FindingSet }

-----------------------------------------------------------------------------
(* Properties of scanDirectory: specification Spec *)

\* C1: with language detection enabled, the returned list holds at most one
\* Finding whose path is a given depth-0 directory.
C1_OneFindingPerDepth0Dir ==
    (Done /\ detectLang) =>
        \A p \in Depth0Dirs : Cardinality(FindingsAt(p)) <= 1

\* C2, as claimed: nothing strictly beneath a directory whose base name
\* matches a cache pattern of any enabled language is visited, classified or
\* reported.
C2_NeverBelowAnyEnabledPattern ==
    \A q \in Touched :
        \A k \in 1..(Len(q) - 1) :
            FirstMatch(q[k], allPatterns(cfg)) = 0

\* C2, amended: nothing strictly beneath a directory whose base name matches
\* a pattern of the pattern set in effect for it (the cache patterns of the
\* language resolved for it, or all configured patterns when no language was
\* resolved or detection is off) is visited, classified or reported.
C2_NeverBelowEffectivePattern ==
    \A i \in 1..Len(walked) :
        (walked[i].path # Root
         /\ FirstMatch(Base(walked[i].path), walked[i].patterns) # 0)
        => \A q \in Touched : ~StrictlyUnder(q, walked[i].path)

\* a finished scan in which a directory matched the patterns in effect for it
\* and has a sub-directory within maxDepth that the walk could have entered
C2_Witness ==
    /\ Done
    /\ \E i \in 1..Len(walked) :
          /\ walked[i].path # Root
          /\ FirstMatch(Base(walked[i].path), walked[i].patterns) # 0
          /\ \E q \in tree : StrictlyUnder(q, walked[i].path) /\ Depth(q) <= maxDepth

\* C3: with language detection enabled, every depth-0 directory is the path
\* or the projectRoot of at least one Finding of the result.
C3_EveryDepth0DirReported ==
    (Done /\ detectLang) =>
        \A p \in Depth0Dirs :
            \E f \in FindingSet : f.path = p \/ f.projectRoot = p

\* Scenario B: the root holds `node_modules` and a sibling project without
\* markers or caches, maxDepth = 1, detection on
ScenarioB ==
    /\ tree = { <<"node_modules">>, <<"proj">> }
    /\ \A p \in DOMAIN files : files[p] = {}
    /\ unreadable = {}
    /\ maxDepth = 1
    /\ detectLang

\* C4: Scenario B returns exactly one cache-match Finding for node_modules and
\* exactly one `no language found` Finding for the project, and nothing else.
C4_ScenarioBResult ==
    (Done /\ ScenarioB) =>
        /\ Len(findings) = 2
        /\ \E i \in 1..2 :
              /\ findings[i].path = <<"node_modules">>
              /\ findings[i].pattern = "node_modules"
        /\ \E i \in 1..2 :
              /\ findings[i].path = <<"proj">>
              /\ findings[i].pattern = ""
              /\ findings[i].language = NoLanguageFound

\* C7: within one scan detectLanguage is invoked at most once for any
\* directory.
C7_ClassifiedAtMostOnce ==
    \A i, j \in 1..Len(detectLog) :
        i # j => detectLog[i].dir # detectLog[j].dir

\* C8: with detection on, when the depth-0 project P of a visited directory d
\* (1 <= depth(d) <= maxDepth) is classified as L, d has a cache-match Finding
\* exactly if its base name matches one of L's own patterns, and that Finding
\* has language L, projectRoot P and the first matching pattern of L's list.
C8_MatchedAgainstProjectLanguage ==
    detectLang =>
        \A i \in 1..Len(walked) :
            LET d == walked[i].path
                P == <<d[1]>>
            IN  (/\ Depth(d) >= 1 /\ Depth(d) <= maxDepth
                 /\ P \in DOMAIN langCache /\ langCache[P] # "")
                => LET L    == langCache[P]
                       own  == langToPatterns(cfg)[L]
                       hits == { f \in FindingSet : f.path = d /\ isCacheDirectory(f) }
                   IN  /\ (hits # {}) <=> (FirstMatch(Base(d), own) # 0)
                       /\ \A f \in hits :
                             /\ f.language = L
                             /\ f.projectRoot = P
                             /\ f.pattern = own[FirstMatch(Base(d), own)]

\* Scenario C: proj holds package.json, the cache directory lies at depth 2
\* and is reported under proj's language
C8_Witness ==
    /\ Done /\ detectLang /\ maxDepth = 2
    /\ <<"proj">> \in tree
    /\ "package.json" \in files[<<"proj">>]
    /\ \E f \in FindingSet :
          /\ f.path = <<"proj", "proj", "node_modules">>
          /\ f.pattern = "node_modules"
          /\ f.language = "node"
          /\ f.projectRoot = <<"proj">>

\* C9, as claimed: every Finding has projectRoot equal to the depth-0 ancestor
\* of its path, which is the path itself at depth 0.
C9_ProjectRootIsDepth0Ancestor ==
    \A f \in FindingSet :
        Len(f.path) >= 1 /\ f.projectRoot = <<f.path[1]>>

\* C9, amended: a status Finding has projectRoot equal to its path; a
\* cache-match Finding has, without language detection, the parent directory
\* of its path as projectRoot and, with language detection, the scan root when
\* its path is at depth 0 and the depth-0 ancestor of its path otherwise.
C9_ProjectRootAsAssigned ==
    \A f \in FindingSet :
        IF ~isCacheDirectory(f) THEN f.projectRoot = f.path
        ELSE IF ~detectLang THEN f.projectRoot = Dir(f.path)
        ELSE IF Depth(f.path) = 0 THEN f.projectRoot = Root
        ELSE f.projectRoot = <<f.path[1]>>

\* a finished scan with detection on that reports a cache directory at depth
\* 0, one deeper down, and a status Finding
C9_Witness ==
    /\ Done /\ detectLang
    /\ \E f \in FindingSet : isCacheDirectory(f) /\ Depth(f.path) = 0
    /\ \E f \in FindingSet : isCacheDirectory(f) /\ Depth(f.path) >= 1
    /\ \E f \in FindingSet : ~isCacheDirectory(f)

\* C10: no Finding has the scan root as its path.
C10_RootNeverReported ==
    \A f \in FindingSet : f.path # Root

\* C11: for every path p the result holds at most one Finding with path p
\* and a non-empty pattern.
C11_OneCacheFindingPerPath ==
    \A i, j \in 1..Len(findings) :
        (/\ findings[i].path = findings[j].path
         /\ findings[i].pattern # ""
         /\ findings[j].pattern # "") => i = j

\* a finished scan that returned the one cache-match Finding of a
\* directory whose name matches more than one of the patterns it was
\* checked against, the first of them a wildcard
C11_Witness ==
    /\ Done
    /\ \E i \in 1..Len(walked) :
          /\ Cardinality({ k \in 1..Len(walked[i].patterns) :
                             matchPattern(Base(walked[i].path), walked[i].patterns[k]) }) > 1
          /\ \E f \in FindingSet :
                /\ f.path = walked[i].path
                /\ f.pattern = "node_*"

\* C12 (pruning): when the result holds a cache-match Finding for directory
\* d, no Finding of the result, cache-match or status, has a path strictly
\* beneath d.
C12_NoFindingBelowCacheMatch ==
    \A f, g \in FindingSet :
        f.pattern # "" =>
            ~(Len(g.path) > Len(f.path)
              /\ SubSeq(g.path, 1, Len(f.path)) = f.path)

\* a finished scan with a cache-match Finding for a directory that holds,
\* within maxDepth, a sub-directory named like a configured pattern
C12_Witness ==
    /\ Done
    /\ \E f \in FindingSet :
          /\ f.pattern # ""
          /\ \E q \in tree :
                /\ StrictlyUnder(q, f.path)
                /\ Len(q) - 1 <= maxDepth
                /\ \E k \in 1..Len(allPatterns(cfg)) :
                      matchPattern(q[Len(q)], allPatterns(cfg)[k])

\* C13 (depth bound): no Finding has a path deeper than maxDepth below the
\* scan root (the immediate children of the root are at depth 0), and no
\* directory deeper than maxDepth is given to detectLanguage or matched
\* against patterns; with maxDepth = 0 the only directories below the root
\* that are matched are its immediate children.
C13_NothingBeyondMaxDepth ==
    /\ \A f \in FindingSet : Len(f.path) - 1 <= maxDepth
    /\ \A i \in 1..Len(detectLog) : Len(detectLog[i].dir) - 1 <= maxDepth
    /\ \A i \in 1..Len(walked) :
          walked[i].patterns # <<>> =>
              /\ Len(walked[i].path) - 1 <= maxDepth
              /\ maxDepth = 0 => Len(walked[i].path) = 1

\* a finished scan whose tree holds a directory deeper than maxDepth that
\* WalkDir handed to the callback, beneath a directory that was classified
\* and matched
C13_Witness ==
    /\ Done /\ detectLang
    /\ \E i, j \in 1..Len(walked) :
          /\ Len(walked[i].path) - 1 > maxDepth
          /\ walked[j].patterns # <<>>
          /\ walked[j].path = SubSeq(walked[i].path, 1, Len(walked[i].path) - 1)
          /\ \E k \in 1..Len(detectLog) : detectLog[k].dir = walked[j].path

\* the directories a scan without language detection has to report: within
\* maxDepth, named like a configured pattern, with no ancestor below the
\* root named like one
UnshadowedMatches ==
    { d \in tree :
        /\ Len(d) - 1 <= maxDepth
        /\ \E k \in 1..Len(allPatterns(cfg)) : matchPattern(d[Len(d)], allPatterns(cfg)[k])
        /\ \A n \in 1..(Len(d) - 1) :
              \A k \in 1..Len(allPatterns(cfg)) : ~matchPattern(d[n], allPatterns(cfg)[k]) }

\* C15: with language detection disabled the result holds exactly one Finding
\* for each directory within maxDepth whose base name matches a configured
\* pattern and none of whose ancestors below the root matches one, and no
\* other Finding; the Finding's pattern is the first matching pattern in
\* configuration order and its language is patternToLang[pattern].
C15_WithoutDetectionExactlyTheMatches ==
    (Done /\ ~detectLang) =>
        /\ \A d \in UnshadowedMatches :
              Cardinality({ i \in 1..Len(findings) : findings[i].path = d }) = 1
        /\ \A f \in FindingSet :
              /\ f.path \in UnshadowedMatches
              /\ \E k \in 1..Len(allPatterns(cfg)) :
                    /\ f.pattern = allPatterns(cfg)[k]
                    /\ matchPattern(f.path[Len(f.path)], allPatterns(cfg)[k])
                    /\ \A j \in 1..(k - 1) :
                          ~matchPattern(f.path[Len(f.path)], allPatterns(cfg)[j])
              /\ \E i \in 1..Len(cfg) :
                    /\ cfg[i].Enabled
                    /\ f.language = cfg[i].Name
                    /\ \E m \in 1..Len(cfg[i].Patterns) : cfg[i].Patterns[m] = f.pattern
                    /\ \A j \in (i + 1)..Len(cfg) :
                          cfg[j].Enabled =>
                              \A m \in 1..Len(cfg[j].Patterns) : cfg[j].Patterns[m] # f.pattern

\* a finished scan without detection that reported a node and a python cache
\* directory and passed over a cache-named directory beneath one of them
C15_Witness ==
    /\ Done /\ ~detectLang
    /\ \E f, g \in FindingSet : f.language = "node" /\ g.language = "python"
    /\ \E d \in tree :
          /\ d \notin UnshadowedMatches
          /\ Len(d) - 1 <= maxDepth
          /\ \E k \in 1..Len(allPatterns(cfg)) : matchPattern(d[Len(d)], allPatterns(cfg)[k])

\* C16: during a scan detectLanguage is never called on a directory whose
\* base name is `.git`, at any depth.
C16_GitNeverClassified ==
    \A i \in 1..Len(detectLog) :
        detectLog[i].dir = Root
        \/ detectLog[i].dir[Len(detectLog[i].dir)] # ".git"

\* C17: a status Finding whose path is a depth-0 directory named `.git` has
\* the empty language, never `no language found`; a status Finding for any
\* other depth-0 directory has the language resolved for that directory, or
\* `no language found` when none was resolved.
C17_StatusLanguage ==
    \A f \in FindingSet :
        (f.pattern = "" /\ Len(f.path) = 1) =>
            IF f.path[1] = ".git"
            THEN f.language = ""
            ELSE IF f.path \in DOMAIN langCache /\ langCache[f.path] # ""
                 THEN f.language = langCache[f.path]
                 ELSE f.language = "no language found"

\* a finished scan that reported a depth-0 `.git`, a depth-0 directory with a
\* resolved language and a depth-0 directory without one, each by a status
\* Finding
C17_Witness ==
    /\ Done
    /\ \E f, g, h \in FindingSet :
          /\ f.pattern = "" /\ f.path = <<".git">>
          /\ g.pattern = "" /\ Len(g.path) = 1 /\ g.language \in {"node", "python"}
          /\ h.pattern = "" /\ Len(h.path) = 1 /\ h.language = "no language found"

-----------------------------------------------------------------------------
(* Properties of detectLanguage: specification SpecDetect *)

\* the languages of langSignatures in configuration order
ConfigOrder(c) ==
    LET ls == SelectSeq(SelectedLanguages(c), LAMBDA l : Len(l.Signatures) > 0)
    IN  [i \in 1..Len(ls) |-> ls[i].Name]

\* the candidate languages: enabled, with signatures
CandidateLangs ==
    { l \in { SelectedLanguages(cfg)[i] : i \in 1..Len(SelectedLanguages(cfg)) } :
        Len(l.Signatures) > 0 }

\* a priority that is unset (0) counts as 5
EffectivePriority(l) == IF l.Priority = 0 THEN 5 ELSE l.Priority

\* file name f is a marker of signature sig: the literal name, or for `*.ext`
\* a name ending in .ext whatever the case of its letters
IsMarker(f, sig) ==
    IF HasPrefix(sig, "*.")
    THEN HasSuffix(ToLower(f), ToLower(SubSeq(sig, 2, Len(sig))))
    ELSE f = sig

\* the candidates with a marker file present in Root
WithMarkerFile ==
    { l \in CandidateLangs :
        \E k \in 1..Len(l.Signatures) : \E f \in files[Root] : IsMarker(f, l.Signatures[k]) }

\* C5: when two languages of equal priority both have a marker file in the
\* directory, detectLanguage returns the one first in configuration order.
C5_TieGoesToConfigOrder ==
    (/\ pc = "detected"
     /\ Root \notin unreadable
     /\ \E a, b \in WithMarkerFile :
           a.Name # b.Name /\ EffectivePriority(a) = EffectivePriority(b))
    => detectLog[1].lang =
          detectLanguage(Root, langSignatures(cfg), langPriorities(cfg), ConfigOrder(cfg))

\* C6: detectLanguage returns a language that has a marker file among the
\* entries of the directory and whose priority is lowest among the candidates
\* that have one (unset or 0 counting as 5); it returns "" exactly when no
\* candidate has a marker file there or the directory cannot be read.
C6_LowestPriorityWithMarker ==
    pc = "detected" =>
        LET res == detectLog[1].lang
        IN  /\ res # "" =>
                \E l \in WithMarkerFile :
                    /\ l.Name = res
                    /\ \A k \in WithMarkerFile : EffectivePriority(l) <= EffectivePriority(k)
            /\ (res = "") <=> (WithMarkerFile = {} \/ Root \in unreadable)

\* a call that had to choose: two candidates of different priority have a
\* marker file in the directory (one of them through `*.csproj`, or with its
\* priority unset), and the one of lower priority was returned
C6_Witness ==
    /\ pc = "detected"
    /\ \E a, b \in WithMarkerFile :
          /\ EffectivePriority(a) < EffectivePriority(b)
          /\ a.Priority = 0 \/ a.Name = "dotnet"
          /\ detectLog[1].lang = a.Name

-----------------------------------------------------------------------------
(* Properties of matchPattern: specification SpecMatch *)

\* C14: matchPattern(name, pattern) is true exactly when name equals pattern,
\* or pattern ends in `*` and name starts with pattern without that final `*`
\* (nothing need follow the prefix): `cmake-build-*` matches
\* `cmake-build-debug` and `cmake-build-`, not `cmake-build`; a `*` elsewhere
\* and `?` stand for themselves.
C14_ExactOrTrailingStar ==
    pc = "matched" =>
        LET name    == matchArgs[1]
            pattern == matchArgs[2]
            n       == Len(matchArgs[2]) - 1
        IN  /\ matchLog[1] <=>
                  \/ name = pattern
                  \/ /\ n >= 0
                     /\ SubSeq(pattern, n + 1, n + 1) = "*"
                     /\ Len(name) >= n
                     /\ SubSeq(name, 1, n) = SubSeq(pattern, 1, n)
            /\ (pattern = "cmake-build-*" /\ name = "cmake-build-debug") => matchLog[1]
            /\ (pattern = "cmake-build-*" /\ name = "cmake-build-") => matchLog[1]
            /\ (pattern = "cmake-build-*" /\ name = "cmake-build") => ~matchLog[1]
            /\ (pattern = "a*b" /\ name = "ab") => ~matchLog[1]
            /\ (pattern = "a?" /\ name = "ab") => ~matchLog[1]

\* the call matchPattern("cmake-build-", "cmake-build-*") has returned true
C14_Witness ==
    /\ pc = "matched"
    /\ matchArgs = <<"cmake-build-", "cmake-build-*">>
    /\ matchLog = <<TRUE>>

-----------------------------------------------------------------------------
(* Properties of scanDirectory on trees with failures: specifications      *)
(* SpecWalkError and SpecWalkErrorFair                                     *)

\* the directories the callback was invoked on
WalkedPaths == { walked[i].path : i \in 1..Len(walked) }

\* WalkDir tried to list d and could not: d was handed to the callback, the
\* callback did not answer SkipDir, and d is unreadable
ListingFailed(d) ==
    /\ d \in unreadable
    /\ d \in WalkedPaths
    /\ Len(d) - 1 <= maxDepth
    /\ \A f \in FindingSet : ~(f.path = d /\ f.pattern # "")

\* C18: when a directory under the scan root cannot be listed during the
\* traversal, the scan records a warning for it, treats the directory as
\* having no children, and still visits the remaining directories.
C18_UnreadableWarnedAndSkipped ==
    Done =>
        \A d \in tree :
            ListingFailed(d) =>
                /\ Len(warnings) > 0
                /\ \A q \in WalkedPaths : ~StrictlyUnder(q, d)
                /\ \A q \in tree : Len(q) = 1 => q \in WalkedPaths

\* the files beneath d, each with its directory
FilesUnder(d) == { <<p, n>> : p \in { q \in tree : IsUnder(q, d) }, n \in FileNames }
                 \cap { slot \in (tree \X FileNames) : slot[2] \in files[slot[1]] }

\* C19: when a file inside a matched cache directory cannot be stat-ed while
\* the directory is sized, the cache-match Finding is still emitted, it counts
\* the files that could be read, and its err field is non-empty.
C19_StatFailureRecorded ==
    Done =>
        \A slot \in unstatable :
            \A d \in tree :
                (/\ IsUnder(slot[1], d)
                 /\ d \in WalkedPaths
                 /\ \E k \in 1..Len(walked) :
                       /\ walked[k].path = d
                       /\ \E m \in 1..Len(walked[k].patterns) :
                             matchPattern(d[Len(d)], walked[k].patterns[m]))
                => \E f \in FindingSet :
                      /\ f.path = d /\ f.pattern # ""
                      /\ f.items = Cardinality(FilesUnder(d) \ unstatable)
                      /\ f.err # ""

\* C20: on every tree and configuration, with an unreadable directory or an
\* unreadable scan root too, scanDirectory terminates and returns its list;
\* on an empty scan root the list is empty.
C20_ScanTerminates ==
    /\ <>Done
    /\ [](Done => pc = "done" /\ todo = <<>>)
    /\ []((Done /\ tree = {} /\ files[Root] = {}) => findings = <<>>)

\* scans that have returned: one of an empty root (empty list), one of an
\* unreadable root, one of a tree with an unreadable directory that returned
\* Findings
C20_Witness ==
    /\ Done
    /\ \/ tree = {} /\ files[Root] = {} /\ findings = <<>> /\ unreadable = {}
       \/ Root \in unreadable /\ tree # {}
       \/ unreadable # {} /\ Root \notin unreadable /\ findings # <<>>

-----------------------------------------------------------------------------
(* Properties of the classification inside scanDirectory: specification Spec *)

\* the calls of detectLanguage on the visited directory itself (lines 681
\* and 694), as opposed to the call on its project root (line 667)
LocalCalls == { i \in 1..Len(detectLog) : detectLog[i].line # 667 }

\* C23: detectLanguage is called on the visited directory itself only for a
\* directory d with 0 < depth(d) < maxDepth; never at depth 0 and never at
\* depth = maxDepth.
C23_LocalOnlyStrictlyBetween ==
    \A i \in LocalCalls :
        /\ Depth(detectLog[i].dir) > 0
        /\ Depth(detectLog[i].dir) < maxDepth

\* a depth-0 project root without language: no cache directory, not
\* excluded, and detectLanguage finds nothing in it
Unclassified(r) ==
    /\ r \in tree /\ Depth(r) = 0
    /\ FirstMatch(Base(r), allPatterns(cfg)) = 0
    /\ Base(r) \notin excludedFromLanguageDetection
    /\ DetectOutcomes(r) = {""}

\* the nested sub-projects of the tree with their languages: s lies beneath
\* an unclassified depth-0 project root, 0 < depth(s) < maxDepth, s is
\* neither a cache directory nor excluded, and s holds marker files of
\* language L
SubProjects ==
    { <<sp, L>> \in tree \X LangNames(cfg) :
        /\ Depth(sp) > 0 /\ Depth(sp) < maxDepth
        /\ FirstMatch(Base(sp), allPatterns(cfg)) = 0
        /\ Base(sp) \notin excludedFromLanguageDetection
        /\ Unclassified(<<sp[1]>>)
        /\ DetectOutcomes(sp) = {L} }

\* C24: inside a nested sub-project s of language L, the directories within
\* maxDepth are matched only against the patterns of L, and the cache-match
\* Findings carry language L.
C24_SubProjectLanguageInherited ==
    (Done /\ detectLang) =>
        \A sub \in SubProjects :
            /\ \A i \in 1..Len(walked) :
                  (StrictlyUnder(walked[i].path, sub[1]) /\ Depth(walked[i].path) <= maxDepth)
                  => walked[i].patterns = langToPatterns(cfg)[sub[2]]
            /\ \A f \in FindingSet :
                  (isCacheDirectory(f) /\ StrictlyUnder(f.path, sub[1]))
                  => f.language = sub[2]

\* C25: detectLanguage is never called on a directory whose name matches a
\* configured cache pattern.
C25_NoDetectionOnCacheDirs ==
    \A i \in 1..Len(detectLog) :
        detectLog[i].dir # Root
        => FirstMatch(Base(detectLog[i].dir), allPatterns(cfg)) = 0

-----------------------------------------------------------------------------
(* Signatures that name directories: specification SpecDetect *)

\* the names of the sub-directories of Root
SubDirNames == { Base(q) : q \in { t \in tree : Len(t) = 1 } }

\* the candidates with a marker in Root, be it a file or a sub-directory
WithMarkerEntry ==
    { l \in CandidateLangs :
        \E k \in 1..Len(l.Signatures) :
            \E f \in files[Root] \cup SubDirNames : IsMarker(f, l.Signatures[k]) }

\* C26: a signature matches an entry of that name whether it is a file or a
\* directory: a readable directory holding a sub-directory named like a
\* signature of a candidate language is classified, as a candidate of lowest
\* priority among those with a marker entry.
C26_DirectorySignatureMatches ==
    (/\ pc = "detected"
     /\ Root \notin unreadable
     /\ \E l \in CandidateLangs :
           \E k \in 1..Len(l.Signatures) : l.Signatures[k] \in SubDirNames)
    => \E l \in WithMarkerEntry :
          /\ detectLog[1].lang = l.Name
          /\ \A k \in WithMarkerEntry : EffectivePriority(l) <= EffectivePriority(k)

-----------------------------------------------------------------------------
(* Determinism of scanDirectory: specification Spec *)

\* a list of Findings as a multiset: how often each Finding occurs
AsBag(fs) ==
    [f \in { fs[i] : i \in 1..Len(fs) } |->
        Cardinality({ i \in 1..Len(fs) : fs[i] = f })]

\* the lists scanDirectory can return once WalkDir has returned, over the
\* iteration orders of depth0Scanned in lines 820 and 830
ScanResults ==
    { findings \o Trailing(order, marked) :
        marked \in MarkOutcomes(1), order \in MapOrders(depth0Scanned) }

\* no two languages of the configuration have the same effective priority
NoPriorityTie ==
    \A i, j \in 1..Len(SelectedLanguages(cfg)) :
        i # j => langPriorities(cfg)[SelectedLanguages(cfg)[i].Name]
                 # langPriorities(cfg)[SelectedLanguages(cfg)[j].Name]

\* C29: for a fixed tree and a configuration without priority ties, all runs
\* of scanDirectory return the same multiset of Findings: when the walk is
\* over, the final loops have one outcome whatever the iteration order of
\* the maps.
C29_ScanDeterministic ==
    (pc = "walk" /\ todo = <<>> /\ NoPriorityTie)
    => Cardinality({ AsBag(fs) : fs \in ScanResults }) = 1

-----------------------------------------------------------------------------
(* Properties of main: specification SpecMain *)

\* the paths os.RemoveAll has been called on
AttemptedPaths == { removeLog[i].path : i \in 1..Len(removeLog) }

\* the cache-match Findings of the scan main reported
ReportedCacheFindings ==
    { rep.findings[i] : i \in { j \in 1..Len(rep.findings) : rep.findings[j].pattern # "" } }

\* scanDirectory is running: the first scan or the re-scan
Scanning == mainPc \in {"scan", "rescan"} /\ pc = "walk"

\* C21: without --clean no directory is ever removed, and no step of
\* scanDirectory removes or modifies anything in the tree.
C21_DryRunRemovesNothing ==
    /\ [](~flagClean => removeLog = <<>>)
    /\ [][(~flagClean \/ Scanning) => UNCHANGED <<tree, files, unreadable, unstatable>>]_vars

\* a finished run without --clean that has shown cache directories in its
\* table
C21_Witness ==
    /\ ~flagClean /\ ~flagJSON
    /\ mainPc = "exit"
    /\ ReportedCacheFindings # {}
    /\ Len(table.rows) > 0
    /\ DryRunLine(rep) = "Dry-run: true"

\* the list of the directories to delete and the question have been printed
PromptShown ==
    /\ \A f \in ReportedCacheFindings : \E i \in 1..Len(out) : out[i] = PromptLine(f)
    /\ \E i \in 1..Len(out) : out[i] = "Continue? [y/N]: "

\* the line the user typed, without the end of the line
Typed(read) == TrimSuffix(read.line, <<"\n">>)

\* C22 as stated: with --clean and without --yes, a removal is attempted
\* only after the list has been shown and the user has answered y or yes;
\* after an input error or any other answer the run has ended and nothing
\* was removed.
C22_RemovalOnlyAfterYOrYes ==
    (flagClean /\ ~flagYes) =>
        /\ removeLog # <<>> =>
              /\ PromptShown
              /\ Len(stdin) = 1 /\ ~stdin[1].err
              /\ Typed(stdin[1]) \in {Runes("y"), Runes("yes")}
        /\ (stdin # <<>> /\ (stdin[1].err \/ Typed(stdin[1]) \notin {Runes("y"), Runes("yes")})) =>
              /\ mainPc = "exit"
              /\ removeLog = <<>>

\* y and yes in every letter case
YesWords ==
    { Runes(w) : w \in {"y", "yes", "Y", "Yes", "yEs", "yeS", "YEs", "YeS", "yES", "YES"} }

\* the answer is y or yes in some letter case, with nothing but white space
\* before and after it
SaysYes(read) ==
    \E i, j \in 1..Len(Typed(read)) :
        /\ SubSeq(Typed(read), i, j) \in YesWords
        /\ \A k \in 1..Len(Typed(read)) : (k < i \/ k > j) => Typed(read)[k] \in WhiteSpace

\* C22, amended: with --clean and without --yes, a removal is attempted only
\* after the list has been shown and the user has answered y or yes, in
\* any letter case and with white space around it; after an input error or
\* any other answer the run has ended and nothing was removed.
C22_RemovalOnlyAfterConfirmation ==
    (flagClean /\ ~flagYes) =>
        /\ removeLog # <<>> =>
              /\ PromptShown
              /\ Len(stdin) = 1 /\ ~stdin[1].err
              /\ SaysYes(stdin[1])
        /\ (stdin # <<>> /\ (stdin[1].err \/ ~SaysYes(stdin[1]))) =>
              /\ mainPc = "exit"
              /\ removeLog = <<>>

\* a confirmed run: the list was shown, the user answered YES after a form
\* feed and before a no-break space, and a directory was removed
C22_Witness ==
    /\ flagClean /\ ~flagYes
    /\ PromptShown
    /\ stdin = <<ReadString(<<"\f", "Y", "E", "S", "U+00A0">>, FALSE)>>
    /\ \E i \in 1..Len(removeLog) : removeLog[i].ok /\ removeLog[i].path \notin tree
    /\ mainPc = "exit"

\* C27: with --clean and --yes, a run that reports cache-match Findings
\* attempts the removal of every one of them, in every output mode; a run
\* that ends without an attempt has reported dry_run = true.
C27_CleanYesAlwaysDeletes ==
    (mainPc = "exit" /\ flagClean /\ flagYes /\ ReportedCacheFindings # {}) =>
        /\ \A f \in ReportedCacheFindings : f.path \in AttemptedPaths
        /\ ~rep.dryRun => removeLog # <<>>

\* C28: os.RemoveAll is only called on paths of cache-match Findings of the
\* scan, and once the loop has begun it goes through all of them, whether
\* or not an earlier removal failed.
C28_OnlyCacheDirectoriesRemoved ==
    /\ \A p \in AttemptedPaths : \E f \in ReportedCacheFindings : f.path = p
    /\ \A i \in 1..Len(removeLog) : removeLog[i].path = cacheFindings[i].path
    /\ (mainPc \in {"rescan", "exit"} /\ removeLog # <<>>) =>
          \A f \in ReportedCacheFindings : f.path \in AttemptedPaths

\* a finished run in which a removal failed and a later one was still
\* made and succeeded, while a status Finding's directory was left alone
C28_Witness ==
    /\ mainPc = "exit"
    /\ \E i, j \in 1..Len(removeLog) : i < j /\ ~removeLog[i].ok /\ removeLog[j].ok
    /\ \E i \in 1..Len(rep.findings) :
          /\ rep.findings[i].pattern = ""
          /\ rep.findings[i].path \in tree
          /\ rep.findings[i].path \notin AttemptedPaths

\* C30: in the table of displayDetailed the TOTAL row shows the sum of the
\* sizes and the sum of the item counts of the project rows above it.
C30_TotalRowIsSumOfRows ==
    table # NoTable =>
        /\ table.footer.totalSize = human(TotalSize(Grouped(rep.findings)))
        /\ table.footer.totalItems = ToString(TotalItems(Grouped(rep.findings)))

====
